---- MODULE Spec2Model ----
(***************************************************************************)
(* ktapper: the typing-session engine of src/main.rs (struct App and the   *)
(* key dispatch of run), as a state machine over one key event per step.   *)
(*                                                                         *)
(* Representation                                                          *)
(*   Option<T>      a sequence of length <= 1: <<>> is None, <<x>> Some(x) *)
(*   &str / String  a sequence of characters (one-letter strings)          *)
(*   temp_limit     a sequence of decimal digits 0..9 (only digit keys and *)
(*                  to_string() ever write it)                             *)
(*   HashSet<usize> a set of naturals                                      *)
(*   Instant        a natural number of clock ticks (variable now)         *)
(*   AppState       a record with a tag and the variant's payload          *)
(***************************************************************************)
EXTENDS Integers, Sequences, FiniteSets

\* ---------------------------------------------------------------- bounds
MaxWords == 2       \* completed words kept in a run of the model
MaxLimit == 2       \* largest word limit configured or staged
MaxBufLen == 2      \* longest staged limit buffer in the key-by-key model
MaxSel == 1         \* largest stored Results selection index
MaxTime == 3        \* clock ticks in the timed specification
MaxWide == 21       \* longest staged limit buffer drawn in SpecLimit
IntCap == 1000000000 \* the model's numbers saturate here, above every threshold

\* ------------------------------------------------------- program constants
U16Max == 65535
I32MaxDigits == <<2, 1, 4, 7, 4, 8, 3, 6, 4, 7>>
UsizeMaxDigits == <<1, 8, 4, 4, 6, 7, 4, 4, 0, 7, 3, 7, 0, 9, 5, 5, 1, 6, 1, 5>>

\* ------------------------------------------------------------ input sets
Chars == {"a", "b"}                      \* printable keys fed to the Input phase
Words == {<<"a">>, <<"a", "b">>}         \* what random_word::get may return
DigitKeys == {0, 1, 2}                   \* digit keys pressed key by key
StagedLangs == {"En", "Ru"}              \* the stretch of the ring the keys walk

Langs == {"En", "Ru", "De", "Es", "Fr", "Ja", "Zh"}

None == <<>>
Some(x) == <<x>>

VARIABLES
    app,      \* struct App
    now,      \* the monotonic clock read by Instant::now()
    last,     \* history: the key handler (and its branch) that ran last
    typed,    \* history: for each completed word, the input at its finalization
    opened,   \* history: live (lang, limit) when Settings was opened
    active,   \* history: ticks since the first keystroke outside paused intervals
    pausing,  \* history: inside a paused interval (Escape .. back in Input)
    panicked  \* an unwrap() on None unwound the event loop

vars == <<app, now, last, typed, opened, active, pausing, panicked>>

\* ------------------------------------------------------------- AppState
Input == [tag |-> "Input"]
Pause(t) == [tag |-> "Pause", paused_at |-> t]
Results(sel) == [tag |-> "Results", selected |-> sel]
Settings == [tag |-> "Settings"]

\* ------------------------------------------------------ language cycling
next_lang(l) ==
    CASE l = "En" -> "Ru"
      [] l = "Ru" -> "De"
      [] l = "De" -> "Es"
      [] l = "Es" -> "Fr"
      [] l = "Fr" -> "Ja"
      [] l = "Ja" -> "Zh"
      [] l = "Zh" -> "En"

prev_lang(l) ==
    CASE l = "En" -> "Zh"
      [] l = "Ru" -> "En"
      [] l = "De" -> "Ru"
      [] l = "Es" -> "De"
      [] l = "Fr" -> "Es"
      [] l = "Ja" -> "Fr"
      [] l = "Zh" -> "Ja"

\* ------------------------------------------------ decimal text <-> number
Max(x, y) == IF x >= y THEN x ELSE y
Min(x, y) == IF x <= y THEN x ELSE y

RECURSIVE StripZeros(_)
\* the digits without their leading zeros (<<>> for a value of zero)
StripZeros(s) ==
    IF s = <<>> THEN <<>>
    ELSE IF Head(s) = 0 THEN StripZeros(Tail(s)) ELSE s

RECURSIVE LexLeq(_, _)
\* s <= t digit by digit, for digit sequences of one length
LexLeq(s, t) ==
    IF s = <<>> THEN TRUE
    ELSE IF Head(s) < Head(t) THEN TRUE
    ELSE IF Head(s) > Head(t) THEN FALSE
    ELSE LexLeq(Tail(s), Tail(t))

\* the number written s is at most the number written m (m without leading zeros)
FitsIn(s, m) ==
    LET c == StripZeros(s) IN
    \/ Len(c) < Len(m)
    \/ Len(c) = Len(m) /\ LexLeq(c, m)

RECURSIVE Value(_)
\* the number a digit sequence writes (Horner); used only where it fits i32
Value(s) ==
    IF s = <<>> THEN 0
    ELSE 10 * Value(SubSeq(s, 1, Len(s) - 1)) + s[Len(s)]

RECURSIVE to_string(_)
\* usize::to_string / i32::to_string of a non-negative number
to_string(n) ==
    IF n < 10 THEN <<n>>
    ELSE Append(to_string(n \div 10), n % 10)

\* str::parse::<i32>() of a digit buffer: Err on empty text and on overflow
parse_i32(s) ==
    IF s # <<>> /\ FitsIn(s, I32MaxDigits) THEN Some(Value(s)) ELSE None

\* str::parse::<usize>() of a digit buffer: Err on empty text and above
\* usize::MAX (64 bit); a parsed value above IntCap is represented by IntCap
parse_usize(s) ==
    IF s # <<>> /\ FitsIn(s, UsizeMaxDigits)
    THEN Some(IF Len(StripZeros(s)) > 9 THEN IntCap ELSE Value(s))
    ELSE None

\* Option::unwrap_or
unwrap_or(o, d) == IF o = None THEN d ELSE o[1]

\* htils CharAt::char_at: the character at a 0-based index, None past the end
char_at(s, index) == IF index < Len(s) THEN Some(s[index + 1]) ELSE None

\* ------------------------------------------------------------ impl App
new_word(a, w) ==
    [a EXCEPT !.current_word = w, !.input = <<>>, !.wrong_input_chars = {}]

\* restart that forgets to clear the completed words
restart_keeps_words(a, w) ==
    new_word([a EXCEPT !.app_state = Input,
                       !.input = <<>>,
                       !.wrong_input_chars = {},
                       !.start = None,
                       !.finished_time = None], w)

restart(a, w) ==
    new_word([a EXCEPT !.app_state = Input,
                       !.input = <<>>,
                       !.wrong_input_chars = {},
                       !.words = <<>>,
                       !.wrong_words = {},
                       !.start = None,
                       !.finished_time = None], w)

pause(a, t) == [a EXCEPT !.app_state = Pause(t)]

\* checked_add cannot overflow here: t - paused_at is at most MaxTime
resume(a, t) ==
    LET shifted ==
            IF a.app_state.tag = "Pause" /\ a.start # None
            THEN Some(a.start[1] + (t - a.app_state.paused_at))
            ELSE a.start
    IN  [a EXCEPT !.start = shifted, !.app_state = Input]

\* a first character that does not start the clock
start_skipped(a, t) == a

start(a, t) == [a EXCEPT !.start = Some(t)]

\* Instant::duration_since saturates at zero
duration_since(t, earlier) == Max(0, t - earlier)

\* self.start.unwrap() panics on None: the caller tests finish_panics first
finish_panics(a) == a.start = None

\* a finish that shows the results without taking the time
finish_untimed(a, t) == [a EXCEPT !.app_state = Results(0)]

finish(a, t) ==
    [a EXCEPT !.finished_time = Some(duration_since(t, a.start[1])),
              !.app_state = Results(0)]

exit(a) == [a EXCEPT !.exit = TRUE]

open_settings(a) ==
    [a EXCEPT !.temp_lang = a.lang,
              !.temp_limit = to_string(a.words_limit),
              !.app_state = Settings]

\* new_limit without the val > 0 test
new_limit_any(a) == unwrap_or(parse_usize(a.temp_limit), a.words_limit)

new_limit(a) ==
    LET parsed == parse_usize(a.temp_limit) IN
    IF parsed = None THEN a.words_limit
    ELSE IF parsed[1] > 0 THEN parsed[1] ELSE a.words_limit

\* apply_settings that commits and marks a change whatever was staged
apply_settings_always(a) ==
    [a EXCEPT !.lang = a.temp_lang,
              !.words_limit = new_limit(a),
              !.settings_changed = TRUE]

apply_settings(a) ==
    IF a.lang # a.temp_lang \/ a.words_limit # new_limit(a)
    THEN [a EXCEPT !.lang = a.temp_lang,
                   !.words_limit = new_limit(a),
                   !.settings_changed = TRUE]
    ELSE a

RECURSIVE total_typed_chars_of(_)
\* self.words.iter().map(|w| w.word.chars().count()).sum()
total_typed_chars_of(ws) ==
    IF ws = <<>> THEN 0 ELSE Len(Head(ws).word) + total_typed_chars_of(Tail(ws))

RECURSIVE total_wrong_chars_of(_)
\* self.words.iter().map(|w| w.wrong_chars.len()).sum()
total_wrong_chars_of(ws) ==
    IF ws = <<>> THEN 0
    ELSE Cardinality(Head(ws).wrong_chars) + total_wrong_chars_of(Tail(ws))

total_typed_chars(a) == total_typed_chars_of(a.words)
total_wrong_chars(a) == total_wrong_chars_of(a.words)

\* usize subtraction: total_typed_chars - total_wrong_chars below zero
accuracy_underflows(a) ==
    total_typed_chars(a) # 0 /\ total_wrong_chars(a) > total_typed_chars(a)

\* the percentage as the pair (numerator, denominator) of the f32 division
calculate_accuracy(a) ==
    IF total_typed_chars(a) = 0 THEN [num |-> 100, den |-> 1]
    ELSE [num |-> (total_typed_chars(a) - total_wrong_chars(a)) * 100,
          den |-> total_typed_chars(a)]

\* ------------------------------------------- run: the Input phase, a character
\* lines 305-315: start on the first character, push it, compare at its index
type_char(a, ch, t) ==
    LET a1 == IF a.start = None THEN start(a, t) ELSE a
        a2 == [a1 EXCEPT !.input = Append(@, ch)]
        input_len == Len(a2.input)
        index == Max(0, input_len - 1)
    IN  IF char_at(a2.current_word, index) # char_at(a2.input, index)
        THEN [a2 EXCEPT !.wrong_input_chars = @ \cup {index}]
        ELSE a2

word_done(a) == Len(a.input) >= Len(a.current_word)

\* a clone in place of the take: the set stays behind
clone_wrong_input_chars(a) == a.wrong_input_chars

\* std::mem::take leaves the default (empty) set behind
take_wrong_input_chars(a) == {}

\* a push that does not note the wrong word's index
push_word_unmarked(a) ==
    [a EXCEPT !.words = Append(@, [word |-> a.current_word,
                                   wrong_chars |-> a.wrong_input_chars]),
              !.wrong_input_chars = take_wrong_input_chars(a)]

\* lines 318-325: note a wrong word, push the Word, take its wrong characters
push_word(a) ==
    [a EXCEPT !.wrong_words =
                  IF a.wrong_input_chars # {} THEN @ \cup {Len(a.words)} ELSE @,
              !.words = Append(@, [word |-> a.current_word,
                                   wrong_chars |-> a.wrong_input_chars]),
              !.wrong_input_chars = take_wrong_input_chars(a)]

\* a limit test that lets one word more through
limit_passed(a) == Len(a.words) > a.words_limit

limit_reached(a) == Len(a.words) >= a.words_limit

\* the whole KeyCode::Char arm of the Input phase (finish's unwrap aside)
on_char(a, ch, w, t) ==
    LET a1 == type_char(a, ch, t) IN
    IF word_done(a1)
    THEN LET a2 == push_word(a1) IN
         IF limit_reached(a2)
         THEN IF finish_panics(a2) THEN a2 ELSE finish(a2, t)
         ELSE new_word(a2, w)
    ELSE a1

on_char_panics(a, ch, t) ==
    LET a1 == type_char(a, ch, t) IN
    word_done(a1) /\ limit_reached(push_word(a1)) /\ finish_panics(push_word(a1))

\* ------------------------------------------------ run: the Results phase
\* ratatui ListState::select_previous / select_next on Some(i)
select_previous(i) == Max(0, i - 1)
select_next(i) == i + 1

\* ----------------------------------------------- run: the Settings phase
\* Escape that applies the staged values as Enter does
settings_esc_applies(a, w) ==
    LET a1 == [apply_settings(a) EXCEPT !.app_state = Input] IN
    IF a1.settings_changed
    THEN [restart(a1, w) EXCEPT !.settings_changed = FALSE]
    ELSE a1

settings_esc(a, w) ==
    LET a1 == [a EXCEPT !.app_state = Input] IN
    IF a1.settings_changed
    THEN [restart(a1, w) EXCEPT !.settings_changed = FALSE]
    ELSE a1

toggle_selected(sel) == IF sel = "Lang" THEN "Limit" ELSE "Lang"

\* lines 369-371: the limit is an i32 (integer fallback), Err parses as 1
left_limit(buf) == to_string(Max(1, unwrap_or(parse_i32(buf), 1) - 1))

\* lines 377-379: the limit is a usize, Err parses as 0
right_limit(buf) == to_string(Min(U16Max, unwrap_or(parse_usize(buf), 0) + 1))

settings_left(a) ==
    IF a.selected_setting = "Lang"
    THEN [a EXCEPT !.temp_lang = prev_lang(a.temp_lang)]
    ELSE [a EXCEPT !.temp_limit = left_limit(a.temp_limit)]

settings_right(a) ==
    IF a.selected_setting = "Lang"
    THEN [a EXCEPT !.temp_lang = next_lang(a.temp_lang)]
    ELSE [a EXCEPT !.temp_limit = right_limit(a.temp_limit)]

settings_digit(a, d) ==
    IF a.selected_setting = "Limit"
    THEN [a EXCEPT !.temp_limit = Append(@, d)]
    ELSE a

\* String::pop: nothing to remove from an empty buffer
settings_backspace(a) ==
    IF a.selected_setting = "Limit" /\ a.temp_limit # <<>>
    THEN [a EXCEPT !.temp_limit = SubSeq(@, 1, Len(@) - 1)]
    ELSE a

\* an Enter that restarts but leaves settings_changed raised
settings_enter_keeps_flag(a, w) ==
    LET a1 == [apply_settings(a) EXCEPT !.app_state = Input] IN
    IF a1.settings_changed THEN restart(a1, w) ELSE a1

settings_enter(a, w) ==
    LET a1 == [apply_settings(a) EXCEPT !.app_state = Input] IN
    IF a1.settings_changed
    THEN [restart(a1, w) EXCEPT !.settings_changed = FALSE]
    ELSE a1

\* -------------------------------------------------------------- Init
ConfigLangs == {"En"}            \* the language the stored configuration names

\* App::default() as overwritten by App::from(config); show() leaves on limit 0
AppFrom(l, limit, w) ==
    [exit |-> FALSE,
     app_state |-> Input,
     current_word |-> w,
     input |-> <<>>,
     wrong_input_chars |-> {},
     words_limit |-> limit,
     lang |-> l,
     words |-> <<>>,
     wrong_words |-> {},
     start |-> None,
     finished_time |-> None,
     settings_changed |-> FALSE,
     selected_setting |-> "Lang",
     temp_lang |-> l,
     temp_limit |-> to_string(limit)]

Init ==
    /\ \E l \in ConfigLangs, limit \in 1..MaxLimit, w \in Words :
            app = AppFrom(l, limit, w)
    /\ now = 0
    /\ last = "Init"
    /\ typed = <<>>
    /\ opened = None
    /\ active = 0
    /\ pausing = FALSE
    /\ panicked = FALSE

\* a loop that goes on reading keys after exit() was called
running_after_exit == ~panicked

\* the event loop is waiting for a key: while !app.exit, no panic unwound it
Running == ~app.exit /\ ~panicked
Phase == app.app_state.tag

\* a handler h that leaves the session as a2, and what the history records of it
Handled(a2, h, ty) ==
    /\ app' = a2
    /\ last' = h
    /\ typed' = ty
    /\ opened' = IF app'.app_state.tag # "Settings" THEN None
                 ELSE IF Phase = "Settings" THEN opened
                 ELSE Some([lang |-> app.lang, limit |-> app.words_limit])
    /\ active' = IF app'.start = None THEN 0 ELSE active
    /\ pausing' = IF app'.app_state.tag = "Pause" THEN TRUE
                  ELSE IF app'.app_state.tag = "Input" THEN FALSE
                  ELSE pausing
    /\ UNCHANGED now

\* the typed texts follow words.clear()
KeepTyped == IF app'.words = <<>> THEN <<>> ELSE typed

\* ------------------------------------------------------ Input phase keys
InputEsc ==
    /\ Running /\ Phase = "Input"
    /\ Handled(pause(app, now), "InputEsc", typed)
    /\ UNCHANGED panicked

InputChar ==
    /\ Running /\ Phase = "Input"
    /\ Len(app.words) < MaxWords
    /\ \E ch \in Chars, w \in Words :
          /\ Handled(on_char(app, ch, w, now), "InputChar",
                     IF Len(app'.words) > Len(app.words)
                     THEN Append(typed, Append(app.input, ch))
                     ELSE typed)
          /\ panicked' = on_char_panics(app, ch, now)

InputOther ==
    /\ Running /\ Phase = "Input"
    /\ UNCHANGED vars

\* ------------------------------------------------------ Pause phase keys
PauseQuit ==
    /\ Running /\ Phase = "Pause"
    /\ Handled(exit(app), "PauseQuit", typed)
    /\ UNCHANGED panicked

PauseSettings ==
    /\ Running /\ Phase = "Pause"
    /\ Handled(open_settings(app), "PauseSettings", typed)
    /\ UNCHANGED panicked

PauseResume ==
    /\ Running /\ Phase = "Pause"
    /\ Handled(resume(app, now), "PauseResume", typed)
    /\ UNCHANGED panicked

\* ---------------------------------------------------- Results phase keys
ResultsUp ==
    /\ Running /\ Phase = "Results"
    /\ Handled([app EXCEPT !.app_state.selected = select_previous(@)],
               "ResultsUp", typed)
    /\ UNCHANGED panicked

ResultsDown ==
    /\ Running /\ Phase = "Results"
    /\ app.app_state.selected < MaxSel
    /\ Handled([app EXCEPT !.app_state.selected = select_next(@)],
               "ResultsDown", typed)
    /\ UNCHANGED panicked

ResultsQuit ==
    /\ Running /\ Phase = "Results"
    /\ Handled(exit(app), "ResultsQuit", typed)
    /\ UNCHANGED panicked

ResultsRestart ==
    /\ Running /\ Phase = "Results"
    /\ \E w \in Words : Handled(restart(app, w), "ResultsRestart", <<>>)
    /\ UNCHANGED panicked

ResultsSettings ==
    /\ Running /\ Phase = "Results"
    /\ Handled(open_settings(app), "ResultsSettings", typed)
    /\ UNCHANGED panicked

ResultsOther ==
    /\ Running /\ Phase = "Results"
    /\ UNCHANGED vars

\* --------------------------------------------------- Settings phase keys
SettingsEsc ==
    /\ Running /\ Phase = "Settings"
    /\ \E w \in Words :
          Handled(settings_esc(app, w),
                  IF app.settings_changed THEN "SettingsEscRestart"
                                          ELSE "SettingsEsc",
                  KeepTyped)
    /\ UNCHANGED panicked

SettingsUpDown ==
    /\ Running /\ Phase = "Settings"
    /\ Handled([app EXCEPT !.selected_setting = toggle_selected(@)],
               "SettingsUpDown", typed)
    /\ UNCHANGED panicked

\* the staged values stay within StagedLangs and 0..MaxLimit key by key
StagedWithin(a) ==
    /\ a.temp_lang \in StagedLangs
    /\ unwrap_or(parse_usize(a.temp_limit), 0) <= MaxLimit

SettingsLeft ==
    /\ Running /\ Phase = "Settings"
    /\ Handled(settings_left(app), "SettingsLeft", typed)
    /\ StagedWithin(app')
    /\ UNCHANGED panicked

SettingsRight ==
    /\ Running /\ Phase = "Settings"
    /\ Handled(settings_right(app), "SettingsRight", typed)
    /\ StagedWithin(app')
    /\ UNCHANGED panicked

SettingsDigit ==
    /\ Running /\ Phase = "Settings"
    /\ \E d \in DigitKeys :
          /\ Handled(settings_digit(app, d), "SettingsDigit", typed)
          /\ Len(app'.temp_limit) <= MaxBufLen
          /\ StagedWithin(app')
    /\ UNCHANGED panicked

SettingsBackspace ==
    /\ Running /\ Phase = "Settings"
    /\ Handled(settings_backspace(app), "SettingsBackspace", typed)
    /\ UNCHANGED panicked

EnterBranch(a) ==
    IF apply_settings(a).settings_changed THEN "SettingsEnterRestart"
                                          ELSE "SettingsEnter"

SettingsEnter ==
    /\ Running /\ Phase = "Settings"
    /\ \E w \in Words :
          Handled(settings_enter(app, w), EnterBranch(app), KeepTyped)
    /\ UNCHANGED panicked

SettingsOther ==
    /\ Running /\ Phase = "Settings"
    /\ UNCHANGED vars

\* ------------------------------------------------------------ the clock
Tick ==
    /\ Running
    /\ now < MaxTime
    /\ now' = now + 1
    /\ active' = IF app.start # None /\ ~pausing THEN active + 1 ELSE active
    /\ UNCHANGED <<app, last, typed, opened, pausing, panicked>>

\* ------------------------------------------------------- specifications
Next ==
    \/ InputEsc \/ InputChar \/ InputOther
    \/ PauseQuit \/ PauseSettings \/ PauseResume
    \/ ResultsUp \/ ResultsDown \/ ResultsQuit
    \/ ResultsRestart \/ ResultsSettings \/ ResultsOther
    \/ SettingsEsc \/ SettingsUpDown \/ SettingsLeft \/ SettingsRight
    \/ SettingsDigit \/ SettingsBackspace \/ SettingsEnter \/ SettingsOther

Spec == Init /\ [][Next]_vars

\* The session against the clock: the keys that type, pause, resume and pass
\* through Settings without editing, interleaved with clock ticks.
NextTimed ==
    \/ Tick
    \/ InputEsc \/ InputChar
    \/ PauseSettings \/ PauseResume
    \/ ResultsRestart \/ ResultsSettings
    \/ SettingsEsc \/ SettingsEnter

SpecTimed == Init /\ [][NextTimed]_vars

\* The Limit field as a function of the staged buffer: Settings is open on the
\* Limit field with a buffer the digit and backspace keys can leave there, and
\* one of Left, Right and Enter is pressed.
Repeat(d, k) == [i \in 1..k |-> d]

WideBuffers ==
    {Repeat(d, k) : d \in {0, 1, 9}, k \in 0..MaxWide}
        \cup {to_string(n) : n \in 0..99}
        \cup {to_string(U16Max - 1), to_string(U16Max), to_string(U16Max + 1)}
        \cup {I32MaxDigits, [I32MaxDigits EXCEPT ![10] = 8]}
        \cup {UsizeMaxDigits, [UsizeMaxDigits EXCEPT ![20] = 6]}

InitLimit ==
    /\ \E limit \in 1..MaxLimit, w \in Words, buf \in WideBuffers,
          l \in StagedLangs :
            app = [AppFrom("En", limit, w) EXCEPT !.app_state = Settings,
                                                 !.selected_setting = "Limit",
                                                 !.temp_lang = l,
                                                 !.temp_limit = buf]
    /\ now = 0
    /\ last = "Init"
    /\ typed = <<>>
    /\ opened = Some([lang |-> app.lang, limit |-> app.words_limit])
    /\ active = 0
    /\ pausing = TRUE
    /\ panicked = FALSE

LimitLeft ==
    /\ Running /\ Phase = "Settings" /\ last = "Init"
    /\ Handled(settings_left(app), "SettingsLeft", typed)
    /\ UNCHANGED panicked

LimitRight ==
    /\ Running /\ Phase = "Settings" /\ last = "Init"
    /\ Handled(settings_right(app), "SettingsRight", typed)
    /\ UNCHANGED panicked

LimitEnter ==
    /\ Running /\ Phase = "Settings" /\ last = "Init"
    /\ \E w \in Words :
          Handled(settings_enter(app, w), EnterBranch(app), KeepTyped)
    /\ UNCHANGED panicked

NextLimit == LimitLeft \/ LimitRight \/ LimitEnter

SpecLimit == InitLimit /\ [][NextLimit]_vars

\* Typing only: a created or restarted session that is fed characters, one key
\* after another for as long as the Input phase reads them, while time passes.
NextTyping == Tick \/ InputChar \/ ResultsRestart

SpecTyping == Init /\ [][NextTyping]_vars /\ WF_vars(InputChar)

\* ================================================================ claims

\* C1: in every reachable state the number of completed words equals
\* words_limit if and only if the phase is Results.
C1_LimitIffResults ==
    (Len(app.words) = app.words_limit) <=> (Phase = "Results")

\* C2: the number of completed words never exceeds the live words_limit.
C2_NeverExceedsLimit == Len(app.words) <= app.words_limit

\* C3: at the keystroke that finishes the session, finished_time is the time
\* since the first keystroke minus every paused interval (Escape in Input ..
\* back in Input), i.e. the ticks counted in active.
C3_DurationExcludesPauses ==
    [][(InputChar /\ app'.app_state.tag = "Results")
           => app'.finished_time = Some(active')]_vars

\* Enter pressed in Settings (key by key, or on a drawn buffer)
EnterPressed ==
    /\ Phase = "Settings"
    /\ last' \in {"SettingsEnter", "SettingsEnterRestart"}
    /\ SettingsEnter \/ LimitEnter

\* Escape pressed in Settings
EscPressed ==
    /\ Phase = "Settings"
    /\ last' \in {"SettingsEsc", "SettingsEscRestart"}
    /\ SettingsEsc

\* the staged limit buffer parses to a positive number
StagedPositive(a) ==
    parse_usize(a.temp_limit) # None /\ parse_usize(a.temp_limit)[1] > 0

\* C4: Enter with the staged language equal to the live one and the staged
\* buffer parsing to the live words_limit restarts nothing: the completed
\* words, the input, the wrong positions, the current word, start and
\* finished_time, and the live language and limit are all unchanged.
C4_UnchangedEnterKeepsSession ==
    [][(/\ EnterPressed
        /\ app.temp_lang = app.lang
        /\ parse_usize(app.temp_limit) = Some(app.words_limit))
          => /\ app'.words = app.words
             /\ app'.input = app.input
             /\ app'.wrong_input_chars = app.wrong_input_chars
             /\ app'.current_word = app.current_word
             /\ app'.start = app.start
             /\ app'.finished_time = app.finished_time
             /\ app'.lang = app.lang
             /\ app'.words_limit = app.words_limit]_vars

\* Enter left a session in progress alone; the buffer was not the limit's own
\* text ("02" for 2)
C4_Witness ==
    /\ last = "SettingsEnter"
    /\ app.words # <<>> /\ app.input # <<>> /\ app.start # None
    /\ Len(app.words) < app.words_limit
    /\ app.temp_lang = app.lang
    /\ parse_usize(app.temp_limit) = Some(app.words_limit)
    /\ app.temp_limit # to_string(app.words_limit)

\* what a full restart leaves behind
Restarted(a) ==
    /\ a.app_state = Input
    /\ a.words = <<>> /\ a.wrong_words = {}
    /\ a.input = <<>> /\ a.wrong_input_chars = {}
    /\ a.start = None /\ a.finished_time = None

EnterChanges(a) ==
    \/ a.temp_lang # a.lang
    \/ StagedPositive(a) /\ parse_usize(a.temp_limit) # Some(a.words_limit)

\* C5 as stated: Enter with a different staged language or a staged buffer
\* parsing to a different positive limit restarts the session in the same step
\* and leaves words_limit and lang equal to the staged values.
C5_Original ==
    [][(EnterPressed /\ EnterChanges(app))
          => /\ Restarted(app')
             /\ app'.lang = app.temp_lang
             /\ parse_usize(app.temp_limit) = Some(app'.words_limit)]_vars

\* C5 as amended: the same, but words_limit equals the staged limit only when
\* the buffer parses to a positive number, and keeps its value otherwise.
C5_ChangedEnterRestarts ==
    [][(EnterPressed /\ EnterChanges(app))
          => /\ Restarted(app')
             /\ app'.lang = app.temp_lang
             /\ StagedPositive(app)
                   => parse_usize(app.temp_limit) = Some(app'.words_limit)
             /\ ~StagedPositive(app) => app'.words_limit = app.words_limit]_vars

\* Enter committed a changed language with a staged buffer of zero
C5_Witness ==
    /\ last = "SettingsEnterRestart"
    /\ Restarted(app)
    /\ app.lang = "Ru" /\ app.temp_lang = "Ru"
    /\ parse_usize(app.temp_limit) = Some(0)

\* C6: Escape in Settings leaves the live language and words_limit as they
\* were when Settings was opened, whatever was staged in between.
C6_EscapeKeepsLiveConfig ==
    [][EscPressed
          => /\ opened # None
             /\ app'.lang = opened[1].lang
             /\ app'.words_limit = opened[1].limit]_vars

\* Escape discarded a staged language and a staged limit that both differed
C6_Witness ==
    /\ last = "SettingsEsc"
    /\ app.temp_lang # app.lang
    /\ StagedPositive(app)
    /\ parse_usize(app.temp_limit) # Some(app.words_limit)

\* C7: Enter with a staged buffer that is empty, does not parse or parses to 0
\* keeps words_limit, enters no error state, and still commits the staged
\* language.
C7_BadLimitKeepsLimit ==
    [][(EnterPressed /\ ~StagedPositive(app))
          => /\ app'.words_limit = app.words_limit
             /\ app'.lang = app.temp_lang
             /\ app'.app_state = Input
             /\ ~panicked' /\ ~app'.exit]_vars

\* Enter committed a changed language while the non-empty buffer did not parse
C7_Witness ==
    /\ last = "SettingsEnterRestart"
    /\ app.temp_limit # <<>> /\ parse_usize(app.temp_limit) = None
    /\ app.lang = "Ru"

RECURSIVE DecDigits(_)
\* the decimal text of n - 1 from the text of n > 0 (a leading zero may stay)
DecDigits(s) ==
    IF s[Len(s)] > 0 THEN [s EXCEPT ![Len(s)] = @ - 1]
    ELSE Append(DecDigits(SubSeq(s, 1, Len(s) - 1)), 9)

RECURSIVE IncDigits(_)
\* the decimal text of n + 1 from the text of n without leading zeros
IncDigits(s) ==
    IF s = <<>> THEN <<1>>
    ELSE IF s[Len(s)] < 9 THEN [s EXCEPT ![Len(s)] = @ + 1]
    ELSE Append(IncDigits(SubSeq(s, 1, Len(s) - 1)), 0)

\* the text of max(1, n - 1) and of min(65535, n + 1) for the number n that a
\* non-empty digit buffer writes, whatever its size
TextOfLeft(buf) ==
    IF FitsIn(buf, <<1>>) THEN <<1>>
    ELSE StripZeros(DecDigits(StripZeros(buf)))

TextOfRight(buf) ==
    IF FitsIn(buf, to_string(U16Max - 1)) THEN IncDigits(StripZeros(buf))
    ELSE to_string(U16Max)

LimitFocused == app.selected_setting = "Limit" /\ app.temp_limit # <<>>

\* C8: on the Limit field with a non-empty buffer writing n, Left leaves the
\* text of max(1, n - 1) and Right the text of min(65535, n + 1).
C8_LimitArrows ==
    [][/\ ((SettingsLeft \/ LimitLeft) /\ LimitFocused)
             => app'.temp_limit = TextOfLeft(app.temp_limit)
       /\ ((SettingsRight \/ LimitRight) /\ LimitFocused)
             => app'.temp_limit = TextOfRight(app.temp_limit)]_vars

\* the 0-based indices at which the typed text and the target differ
Mismatches(ty, word) ==
    {k \in 0..(Len(ty) - 1) : char_at(ty, k) # char_at(word, k)}

\* C9: every completed word's wrong_chars is exactly the set of indices at
\* which the text typed for it differed from the target word.
C9_WrongCharsAreMismatches ==
    \A i \in 1..Len(app.words) :
        app.words[i].wrong_chars = Mismatches(typed[i], app.words[i].word)

\* C10: with no empty word from the word source, the wrong characters never
\* outnumber the typed ones, so the subtraction in calculate_accuracy cannot
\* underflow and the accuracy lies in [0, 100]; it is 100 with nothing typed.
C10_AccuracyInRange ==
    /\ total_wrong_chars(app) <= total_typed_chars(app)
    /\ ~accuracy_underflows(app)
    /\ 0 <= calculate_accuracy(app).num
    /\ calculate_accuracy(app).num <= 100 * calculate_accuracy(app).den
    /\ total_typed_chars(app) = 0
          => calculate_accuracy(app) = [num |-> 100, den |-> 1]

\* a finished session with every typed character wrong: accuracy 0
C10_Witness ==
    /\ Phase = "Results"
    /\ Len(app.words) = MaxLimit
    /\ total_typed_chars(app) > MaxLimit
    /\ total_wrong_chars(app) = total_typed_chars(app)

\* C11: exit becomes true only by 'q' in the Pause or Results phase; no key
\* of the Input phase (where every character, 'q' included, is typed text) or
\* of the Settings phase ends the session; once exit is set no further key is
\* handled, so the quitting key stays the last one handled.
C11_ExitOnlyByQuit ==
    /\ app.exit => /\ last \in {"PauseQuit", "ResultsQuit"}
                   /\ Phase \in {"Pause", "Results"}
                   /\ last = "PauseQuit" <=> Phase = "Pause"
    /\ Phase \in {"Input", "Settings"} => Running

\* 'q' ended a paused session that had typed something
C11_Witness ==
    /\ app.exit /\ last = "PauseQuit" /\ Phase = "Pause"
    /\ app.input # <<>>

\* C12: 'r' in Results leaves the phase Input, with words, wrong_words, input
\* and wrong_input_chars empty and start and finished_time unset, and lang and
\* words_limit as they were before the key.
C12_RestartKey ==
    [][(Phase = "Results" /\ last' = "ResultsRestart" /\ ResultsRestart)
          => /\ Restarted(app')
             /\ app'.lang = app.lang
             /\ app'.words_limit = app.words_limit]_vars

\* 'r' restarted a finished session whose language a commit had changed
C12_Witness ==
    /\ last = "ResultsRestart"
    /\ Restarted(app)
    /\ app.lang = "Ru" /\ app.words_limit = MaxLimit

\* C13: the live words_limit is at least 1 in every reachable state, whatever
\* digits, backspaces and Left/Right were applied to the staged buffer before
\* each Enter.
C13_LimitPositive == app.words_limit >= 1

\* Enter was pressed on a staged buffer writing zero
C13_Witness ==
    /\ last \in {"SettingsEnter", "SettingsEnterRestart"}
    /\ parse_usize(app.temp_limit) = Some(0)
    /\ app.words_limit >= 1

\* C14: input is never longer than current_word and is strictly shorter in
\* the Input phase, and no wrong index at or past the target's length is
\* recorded, for the word being typed or for a completed one.
C14_InputWithinWord ==
    /\ Len(app.input) <= Len(app.current_word)
    /\ Phase = "Input" => Len(app.input) < Len(app.current_word)
    /\ \A k \in app.wrong_input_chars : k < Len(app.current_word)
    /\ \A i \in 1..Len(app.words) :
          \A k \in app.words[i].wrong_chars : k < Len(app.words[i].word)

\* C15: between two restarts finished_time is assigned at most once: once it
\* is set, no key calls finish() again or leaves another value in it (only a
\* restart unsets it).
C15_FinishedOnce ==
    [][app.finished_time # None
          => /\ ~(InputChar /\ app'.app_state.tag = "Results")
             /\ app'.finished_time \in {app.finished_time, None}]_vars

\* C16: while start is unset, words and input are empty; start is set by a
\* character typed in the Input phase and unset only by a restart, which
\* leaves words and input empty in the same step.
C16_StartUnsetMeansEmpty ==
    [][/\ app.start = None => app.words = <<>> /\ app.input = <<>>
       /\ app'.start = None => app'.words = <<>> /\ app'.input = <<>>
       /\ (app.start = None /\ app'.start # None)
             => /\ Phase = "Input" /\ InputChar
                /\ app.input = <<>> /\ app.words = <<>>
       /\ (app.start # None /\ app'.start = None)
             => /\ last' \in {"ResultsRestart", "SettingsEnterRestart",
                              "SettingsEscRestart"}
                /\ app'.words = <<>> /\ app'.input = <<>>]_vars

\* a commit in Settings restarted the session: nothing typed, start unset
C16_Witness ==
    /\ last = "SettingsEnterRestart"
    /\ app.start = None /\ app.words = <<>> /\ app.input = <<>>
    /\ Phase = "Input"

\* C17: an index i is in wrong_words if and only if i < words.len() and
\* words[i].wrong_chars is non-empty.
C17_WrongWordsExact ==
    app.wrong_words =
        {i \in 0..(Len(app.words) - 1) : app.words[i + 1].wrong_chars # {}}

\* two completed words, only the second one typed wrongly
C17_Witness ==
    /\ Len(app.words) = 2
    /\ app.wrong_words = {1}
    /\ app.words[1].wrong_chars = {}
    /\ Len(app.words) <= app.words_limit

\* C18: in the Results phase the stored selection is an index into words: it
\* stays within 0 .. words.len() - 1 whatever Up and Down keys were pressed.
C18_SelectionWithinWords ==
    Phase = "Results"
        => app.app_state.selected \in 0..(Len(app.words) - 1)

\* where a session that is only typed into stands after each keystroke
TypingOnTrack ==
    /\ Phase \in {"Input", "Results"}
    /\ Len(app.words) <= app.words_limit
    /\ Phase = "Results" <=> Len(app.words) = app.words_limit
    /\ Phase = "Input" => Len(app.input) < Len(app.current_word)
    /\ \A i \in 1..Len(app.words) : Len(typed[i]) = Len(app.words[i].word)

\* C19: a created or restarted session with words_limit = N that is fed only
\* characters reaches Results, at the keystroke that completes the N-th word:
\* the phase is Input while fewer than N words are complete, every word is
\* completed by as many keystrokes as it has characters, and Results follows.
C19_TypingReachesResults ==
    /\ []TypingOnTrack
    /\ (Phase = "Input") ~> (Phase = "Results")

\* MaxLimit words typed without a mistake after a restart, one of two letters
C19_Witness ==
    /\ Phase = "Results" /\ last = "InputChar"
    /\ Len(app.words) = MaxLimit /\ app.words_limit = MaxLimit
    /\ app.wrong_words = {}
    /\ total_typed_chars(app) > MaxLimit

\* C20: finish() never runs with start unset, so its unwrap of start does not
\* panic, and finished_time is set whenever the phase is Results, so the
\* unwrap in the Results screen does not panic either.
C20_UnwrapsSucceed ==
    /\ ~panicked
    /\ Phase = "Results" => app.finished_time # None /\ app.start # None

\* the first character typed also finished the session: start() and finish()
\* ran in the same key
C20_Witness ==
    /\ Phase = "Results" /\ last = "InputChar"
    /\ Len(app.words) = 1 /\ Len(app.words[1].word) = 1
    /\ app.start # None /\ app.finished_time # None

\* C21: settings_changed is false whenever the loop waits for a key (Enter
\* raises and clears it within its own step), so Escape in Settings never
\* restarts: words, input, start and finished_time are unchanged by Escape,
\* whatever Enter committed in earlier visits to Settings.
C21_EscapeNeverRestarts ==
    [][/\ ~app.settings_changed
       /\ ~app'.settings_changed
       /\ EscPressed
             => /\ last' = "SettingsEsc"
                /\ app'.words = app.words
                /\ app'.input = app.input
                /\ app'.start = app.start
                /\ app'.finished_time = app.finished_time]_vars

\* Escape left a started session alone after an earlier Enter had committed
\* another language
C21_Witness ==
    /\ last = "SettingsEsc"
    /\ app.lang = "Ru"
    /\ app.input # <<>> /\ app.start # None
    /\ Len(app.words) < app.words_limit
    /\ app.temp_lang # app.lang

====
